---- MODULE Spec2Model ----
(***************************************************************************)
(* Haze playout engine: the Controller state machine of                    *)
(* src/haze/controller.py with its decoder worker threads, the PCM queue,  *)
(* the two sinks and the ShuffleDeck of src/haze/shuffle.py.               *)
(*                                                                         *)
(* Threads are the two control callers (the TUI/main thread and the web    *)
(* server's event-loop thread) and the decoder workers the controller      *)
(* spawns.  pc[t] is the position of thread t in the code; every action is *)
(* one step between two points at which another thread may run.            *)
(***************************************************************************)
EXTENDS Integers, Sequences, FiniteSets, TLC

(***************************************************************************)
(* Bounds of the model.                                                    *)
(***************************************************************************)
MaxCalls == 3         \* control calls made in one run, one at a time
RaceCalls == 2        \* control calls made in one run, when they may overlap
MaxDecoders == 3      \* decoder threads spawned in one run
MaxStarts == 2        \* start() calls in one run
MaxReloads == 1       \* reload_playlists() calls in one run
QueueMax == 1         \* capacity of the PCM queue (maxsize, scaled down)

(***************************************************************************)
(* Program constants.                                                      *)
(***************************************************************************)
ShuffleCarryOver == 3

TUI == 1
WEB == 2
NoThread == 0
Callers == {TUI, WEB}
DecIds == 3..(2 + MaxDecoders)
Threads == Callers \cup DecIds

STOPPED == "STOPPED"
PLAYING == "PLAYING"
PAUSED == "PAUSED"

\* A Playlist object: its name, its number of tracks and the discovery run
\* (gen) that created it.  NoPlaylist stands for None.
NoPlaylist == [name |-> "", n |-> 0, gen |-> 0]
Playlist(nm, n, g) == [name |-> nm, n |-> n, gen |-> g]

\* A Track is named by its playlist and its position in it.
NoTrack == [pl |-> "", i |-> 0]

\* The contents the playlists directory may have at a discovery run: name and
\* track count of each playlist, in discovery order.
Layouts ==
    { << >>,
      << <<"A", 2>>, <<"B", 1>> >>,
      << <<"B", 2>> >> }

\* The contents at program start.
StartLayouts == { << >>, << <<"A", 2>>, <<"B", 1>> >> }

\* The names a caller may pass to switch_to ("X" is in no layout).
SwitchNames == {"A", "B", "X"}

Discover(layout, g) == [i \in 1..Len(layout) |-> Playlist(layout[i][1], layout[i][2], g)]

Range(s) == {s[i] : i \in 1..Len(s)}
Min(a, b) == IF a < b THEN a ELSE b
Max(a, b) == IF a > b THEN a ELSE b

PlaylistNames(pls) == {pls[i].name : i \in 1..Len(pls)}
Lookup(pls, nm) == pls[CHOOSE i \in 1..Len(pls) : pls[i].name = nm]

(***************************************************************************)
(* ShuffleDeck (src/haze/shuffle.py).  deck is 1-indexed here, pos is the  *)
(* 0-based cursor of the code.  NoDeck stands for None.                    *)
(***************************************************************************)
NoDeck == [n |-> 0, c |-> 0, deck |-> << >>, pos |-> 0, tail |-> << >>]

Perms(n) == {p \in [1..n -> 0..(n - 1)] : \A i, j \in 1..n : p[i] = p[j] => i = j}

FirstFresh(d, tail) ==
    IF \E i \in 1..Len(d) : d[i] \notin Range(tail)
    THEN CHOOSE i \in 1..Len(d) :
            /\ d[i] \notin Range(tail)
            /\ \A j \in 1..(i - 1) : d[j] \in Range(tail)
    ELSE 0

LastK(d, k) == [i \in 1..Min(k, Len(d)) |-> d[Len(d) - Min(k, Len(d)) + i]]

\* deck[-c:] of Python for c # 0: the last c elements, and for a negative c
\* the elements from position -c on
TailSlice(d, c) == IF c > 0 THEN LastK(d, c) ELSE SubSeq(d, 1 - c, Len(d))

\* _build that keeps the shuffle as it comes, without the carry-over swap
DeckBuildNoSwap(dk, shuffled) ==
    [dk EXCEPT !.deck = shuffled,
               !.pos = 0,
               !.tail = IF dk.c # 0 THEN TailSlice(shuffled, dk.c) ELSE << >>]

\* _build with `shuffled` the outcome of random.shuffle
DeckBuild(dk, shuffled) ==
    LET i == FirstFresh(shuffled, dk.tail)
        d == IF dk.tail # << >> /\ i # 0
             THEN [shuffled EXCEPT ![1] = shuffled[i], ![i] = shuffled[1]]
             ELSE shuffled
    IN  [dk EXCEPT !.deck = d,
                   !.pos = 0,
                   !.tail = IF dk.c # 0 THEN TailSlice(d, dk.c) ELSE << >>]

DeckNew(n, carry, shuffled) ==
    DeckBuild([n |-> n, c |-> Min(carry, n \div 2), deck |-> << >>, pos |-> 0,
               tail |-> << >>], shuffled)

DeckCurrent(dk) == dk.deck[dk.pos + 1]

\* advance that rebuilds one position early
DeckAdvanceEarly(dk, shuffled) ==
    IF dk.pos + 1 >= dk.n - 1
    THEN DeckBuild([dk EXCEPT !.pos = dk.pos + 1], shuffled)
    ELSE [dk EXCEPT !.pos = dk.pos + 1]

DeckAdvance(dk, shuffled) ==
    IF dk.pos + 1 >= dk.n
    THEN DeckBuild([dk EXCEPT !.pos = dk.pos + 1], shuffled)
    ELSE [dk EXCEPT !.pos = dk.pos + 1]

DeckRewind(dk) == [dk EXCEPT !.pos = Max(0, dk.pos - 1)]

DeckReset(dk, n, shuffled) ==
    DeckBuild([dk EXCEPT !.n = n, !.c = Min(dk.c, n \div 2), !.tail = << >>], shuffled)

\* reset() without a size: the deck is rebuilt and the last tail is kept
DeckResetSame(dk, shuffled) == DeckBuild(dk, shuffled)

VARIABLES
    cfg,              \* the configuration record and the attached collaborators
    playlists,        \* Controller.playlists, in discovery order
    state,            \* Controller.state
    active_playlist,  \* Controller.active_playlist
    pending_playlist, \* Controller._pending_playlist
    track_index,      \* Controller._track_index
    shuffle,          \* Controller._shuffle
    deck,             \* Controller._deck
    audio_queue,      \* Controller._audio_queue
    stop_decode,      \* Controller._stop_decode (Event)
    pause_event,      \* Controller._pause_event (Event)
    lock,             \* Controller._lock: the thread holding it
    decode_thread,    \* Controller._decode_thread
    sd_stream,        \* Controller._sd_stream is an open stream
    ffmpeg_udp,       \* Controller._ffmpeg_udp is a running encoder
    feeder,           \* the UDP feeder threads
    injector,         \* the MetadataInjector, studied on its own by SpecInjector
    pc,               \* position of every thread
    loc,              \* locals of every thread
    hist              \* history: counters and what the sinks received

vars == <<cfg, injector, playlists, state, active_playlist, pending_playlist, track_index,
          shuffle, deck, audio_queue, stop_decode, pause_event, lock,
          decode_thread, sd_stream, ffmpeg_udp, feeder, pc, loc, hist>>


\* Controller._meta_injector is None; the controller model keeps of the
\* injector only whether there is one (MetaInjector)
NoInjector == [cc |-> 0, id3 |-> << >>, stdin |-> "none"]

NoLocals == [op |-> "", name |-> "", imm |-> FALSE, pl |-> NoPlaylist,
             track |-> NoTrack, jt |-> NoThread, path |-> NoTrack]

\* The configuration (config.py) and the collaborators attached in main.py.
\* overlap tells whether the two control threads may be inside Controller
\* methods at the same time.
ConfigSet ==
    [web : BOOLEAN, udp : {TRUE}, transition : {"finish_track", "immediate"},
     default : {""}, overlap : BOOLEAN]

\* Controller.__init__ followed by load_playlists (main.py:48-49)
InitWith(overlap) ==
    /\ cfg \in {c \in ConfigSet : c.overlap = overlap}
    /\ \E layout \in StartLayouts : playlists = Discover(layout, 0)
    /\ state = STOPPED
    /\ active_playlist = NoPlaylist
    /\ pending_playlist = NoPlaylist
    /\ track_index = 0
    /\ shuffle = FALSE
    /\ deck = NoDeck
    /\ audio_queue = << >>
    /\ stop_decode = FALSE
    /\ pause_event = TRUE
    /\ lock = NoThread
    /\ decode_thread = NoThread
    /\ sd_stream = FALSE
    /\ ffmpeg_udp = FALSE
    /\ feeder = [f \in 1..MaxStarts |-> "unborn"]
    /\ injector = NoInjector
    /\ pc = [t \in Threads |-> IF t \in Callers THEN "idle" ELSE "unborn"]
    /\ loc = [t \in Threads |-> NoLocals]
    /\ hist = [phase |-> "new", calls |-> 0, starts |-> 0, reloads |-> 0, leak |-> FALSE,
               stores |-> 0, solo |-> FALSE]

(***************************************************************************)
(* Helpers over the state.                                                 *)
(***************************************************************************)
Home(t) == IF t \in Callers THEN "idle" ELSE "dead"

Alive(d) == d \in DecIds /\ pc[d] \notin {"unborn", "dead"}

\* _current_index
CurrentIndex ==
    IF active_playlist = NoPlaylist THEN 0
    ELSE IF shuffle /\ deck # NoDeck THEN DeckCurrent(deck)
    ELSE track_index % active_playlist.n

\* The effective transition policy of a playlist: discover() stamps every
\* playlist with cfg.transitions.default.
Transition(pl) == cfg.transition

\* The methods each control thread calls (tui.py _handle_key and main.py for
\* the TUI thread, webserver.py _handle_ws_message for the web thread).
OpsOf(t) ==
    IF t = TUI
    THEN {"start", "stop", "pause", "resume", "next_track", "prev_track",
          "toggle_shuffle", "reload_playlists"}
    ELSE {"pause", "resume", "next_track", "prev_track", "toggle_shuffle",
          "switch_to"}

\* When calls come one at a time the calling thread is immaterial: each method
\* is then called by one thread only.
Owner(o) == IF o \in OpsOf(WEB) THEN WEB ELSE TUI

\* A thread leaves the method it runs (by return or by an exception that
\* unwinds the `with self._lock` block).
Leave(t) ==
    /\ pc' = [pc EXCEPT ![t] = Home(t)]
    /\ loc' = [loc EXCEPT ![t] = NoLocals]
    /\ lock' = IF lock = t THEN NoThread ELSE lock

Goto(t, p) == pc' = [pc EXCEPT ![t] = p]

\* A joined decoder that will not terminate within the join timeout: parked on
\* the closed pause gate, waiting for the lock of a thread that is itself
\* joining, or running with the stop signal not set.
Stuck(d) ==
    \/ pc[d] = "d_gate" /\ ~pause_event
    \/ pc[d] = "te_lock" /\ lock # NoThread
         /\ pc[lock] \in {"play_joining", "stop_joining"}
    \/ pc[d] \in {"d_loop", "d_gate", "d_put"} /\ ~stop_decode

SinkDraining == sd_stream \/ \E f \in 1..MaxStarts : feeder[f] = "get"


(***************************************************************************)
(* Control operations.  A control thread first calls a method (Call), then *)
(* runs its steps.                                                         *)
(***************************************************************************)
Call(t, o, nm, imm) ==
    /\ pc[t] = "idle"
    /\ o \in OpsOf(t)
    /\ hist.calls < (IF cfg.overlap THEN RaceCalls ELSE MaxCalls)
    /\ cfg.overlap \/ (t = Owner(o) /\ \A u \in Callers : pc[u] = "idle")
    \* main.py runs the key loop only after start(); the web thread is up earlier
    /\ (t = TUI /\ o # "start") => hist.phase # "new"
    /\ o = "start" => hist.phase # "started" /\ hist.starts < MaxStarts
    \* an exception out of start() ends main.py and with it the process
    /\ hist.phase # "crashed"
    /\ o = "reload_playlists" => hist.reloads < MaxReloads
    /\ pc' = [pc EXCEPT ![t] = o]
    /\ loc' = [loc EXCEPT ![t] = [NoLocals EXCEPT !.op = o, !.name = nm, !.imm = imm]]
    /\ hist' = [hist EXCEPT
                  !.calls = @ + 1,
                  !.phase = IF o = "start" THEN "started" ELSE @,
                  !.starts = IF o = "start" THEN @ + 1 ELSE @,
                  !.reloads = IF o = "reload_playlists" THEN @ + 1 ELSE @]
    /\ UNCHANGED <<cfg, injector, playlists, state, active_playlist, pending_playlist,
                   track_index, shuffle, deck, audio_queue, stop_decode,
                   pause_event, lock, decode_thread, sd_stream, ffmpeg_udp,
                   feeder>>

\* subprocess.Popen in _start_udp returns, or raises OSError when the encoder
\* cannot be spawned
PopenRaises == BOOLEAN

\* start(): _start_outputs (the soundcard stream opens or fails to, the
\* failure being swallowed; the encoder is spawned, or Popen raises and the
\* exception leaves start() and ends the main thread), state, choice of the
\* playlist to activate
Start(t) ==
    /\ pc[t] = "start"
    /\ sd_stream' \in BOOLEAN
    /\ \E raises \in PopenRaises :
          IF cfg.udp /\ raises
          THEN /\ pc' = [pc EXCEPT ![t] = Home(t)]
               /\ loc' = [loc EXCEPT ![t] = NoLocals]
               /\ hist' = [hist EXCEPT !.phase = "crashed"]
               /\ UNCHANGED <<ffmpeg_udp, feeder, state>>
          ELSE /\ IF cfg.udp
                  THEN /\ ffmpeg_udp' = TRUE
                       /\ feeder' = [feeder EXCEPT ![hist.starts] = "get"]
                  ELSE UNCHANGED <<ffmpeg_udp, feeder>>
               /\ state' = STOPPED
               /\ IF cfg.default # "" /\ cfg.default \in PlaylistNames(playlists)
                  THEN /\ pc' = [pc EXCEPT ![t] = "activate"]
                       /\ loc' = [loc EXCEPT ![t].pl = Lookup(playlists, cfg.default)]
                  ELSE IF Len(playlists) > 0
                  THEN /\ pc' = [pc EXCEPT ![t] = "activate"]
                       /\ loc' = [loc EXCEPT ![t].pl = playlists[1]]
                  ELSE /\ pc' = [pc EXCEPT ![t] = Home(t)]
                       /\ loc' = [loc EXCEPT ![t] = NoLocals]
               /\ UNCHANGED hist
    /\ UNCHANGED <<cfg, injector, playlists, active_playlist, pending_playlist, track_index,
                   shuffle, deck, audio_queue, stop_decode, pause_event, lock,
                   decode_thread>>

\* stop(): the two signals and the decision to join
Stop(t) ==
    /\ pc[t] = "stop"
    /\ stop_decode' = TRUE
    /\ pause_event' = TRUE
    /\ IF decode_thread # NoThread
       THEN /\ pc' = [pc EXCEPT ![t] = "stop_joining"]
            /\ loc' = [loc EXCEPT ![t].jt = decode_thread]
       ELSE /\ pc' = [pc EXCEPT ![t] = "stop_outputs"]
            /\ UNCHANGED loc
    /\ UNCHANGED <<cfg, injector, playlists, state, active_playlist, pending_playlist,
                   track_index, shuffle, deck, audio_queue, lock, decode_thread,
                   sd_stream, ffmpeg_udp, feeder, hist>>

\* stop(): join(timeout=3) returns
StopJoining(t) ==
    /\ pc[t] = "stop_joining"
    /\ ~Alive(loc[t].jt) \/ Stuck(loc[t].jt)
    /\ pc' = [pc EXCEPT ![t] = "stop_outputs"]
    /\ loc' = [loc EXCEPT ![t].jt = NoThread]
    /\ UNCHANGED <<cfg, injector, playlists, state, active_playlist, pending_playlist,
                   track_index, shuffle, deck, audio_queue, stop_decode,
                   pause_event, lock, decode_thread, sd_stream, ffmpeg_udp,
                   feeder, hist>>

\* stop() whose _stop_outputs leaves the soundcard stream open
StopOutputsKeepStream(t) ==
    /\ pc[t] = "stop_outputs"
    /\ sd_stream' = sd_stream
    /\ ffmpeg_udp' = FALSE
    /\ state' = STOPPED
    /\ hist' = [hist EXCEPT !.phase = "stopped"]
    /\ Leave(t)
    /\ UNCHANGED <<cfg, injector, playlists, active_playlist, pending_playlist, track_index,
                   shuffle, deck, audio_queue, stop_decode, pause_event,
                   decode_thread, feeder>>

\* stop(): _stop_outputs, state = STOPPED, return
StopOutputs(t) ==
    /\ pc[t] = "stop_outputs"
    /\ sd_stream' = FALSE
    /\ ffmpeg_udp' = FALSE
    /\ state' = STOPPED
    /\ hist' = [hist EXCEPT !.phase = "stopped"]
    /\ Leave(t)
    /\ UNCHANGED <<cfg, injector, playlists, active_playlist, pending_playlist, track_index,
                   shuffle, deck, audio_queue, stop_decode, pause_event,
                   decode_thread, feeder>>

\* the observers' state notification is reached only with a web server attached
AfterChangePc(t) == IF cfg.web THEN "notify_state" ELSE Home(t)

Finish(t, p) ==
    /\ pc' = [pc EXCEPT ![t] = p]
    /\ loc' = [loc EXCEPT ![t] = IF p = Home(t) THEN NoLocals ELSE @]
    /\ lock' = IF p = Home(t) /\ lock = t THEN NoThread ELSE lock

\* pause() without its state test
PauseGuardAlways == TRUE

PauseGuard == state = PLAYING

Pause(t) ==
    /\ pc[t] = "pause"
    /\ IF PauseGuard
       THEN /\ pause_event' = FALSE
            /\ state' = PAUSED
            /\ Finish(t, AfterChangePc(t))
       ELSE /\ Leave(t)
            /\ UNCHANGED <<pause_event, state>>
    /\ UNCHANGED <<cfg, injector, playlists, active_playlist, pending_playlist, track_index,
                   shuffle, deck, audio_queue, stop_decode, decode_thread,
                   sd_stream, ffmpeg_udp, feeder, hist>>

ResumeGuard == state = PAUSED

Resume(t) ==
    /\ pc[t] = "resume"
    /\ IF ResumeGuard
       THEN /\ pause_event' = TRUE
            /\ state' = PLAYING
            /\ Finish(t, AfterChangePc(t))
       ELSE /\ Leave(t)
            /\ UNCHANGED <<pause_event, state>>
    /\ UNCHANGED <<cfg, injector, playlists, active_playlist, pending_playlist, track_index,
                   shuffle, deck, audio_queue, stop_decode, decode_thread,
                   sd_stream, ffmpeg_udp, feeder, hist>>

\* broadcast_state_change (webserver.py): _build_state reads attributes the
\* Controller does not have and raises; the method is left either way.
NotifyState(t) ==
    /\ pc[t] = "notify_state"
    /\ Leave(t)
    /\ UNCHANGED <<cfg, injector, playlists, state, active_playlist, pending_playlist,
                   track_index, shuffle, deck, audio_queue, stop_decode,
                   pause_event, decode_thread, sd_stream, ffmpeg_udp, feeder,
                   hist>>

\* _advance: the deck and the cursor after it
Advanced(s) ==
    IF active_playlist = NoPlaylist THEN <<deck, track_index>>
    ELSE IF shuffle /\ deck # NoDeck THEN <<DeckAdvance(deck, s), track_index>>
    ELSE <<deck, (track_index + 1) % active_playlist.n>>

\* _rewind
Rewound ==
    IF active_playlist = NoPlaylist THEN <<deck, track_index>>
    ELSE IF shuffle /\ deck # NoDeck THEN <<DeckRewind(deck), track_index>>
    ELSE <<deck, (track_index - 1) % active_playlist.n>>

ShuffleOutcomes == IF deck # NoDeck THEN Perms(deck.n) ELSE {<< >>}

\* next_track() that also empties the pending slot
NextTrackDropsPending(t) ==
    /\ pc[t] = "next_track"
    /\ lock = NoThread
    /\ lock' = t
    /\ \E s \in ShuffleOutcomes :
          /\ deck' = Advanced(s)[1]
          /\ track_index' = Advanced(s)[2]
    /\ pending_playlist' = NoPlaylist
    /\ pc' = [pc EXCEPT ![t] = "play_meta"]
    /\ UNCHANGED <<cfg, injector, playlists, state, active_playlist,
                   shuffle, audio_queue, stop_decode, pause_event, decode_thread,
                   sd_stream, ffmpeg_udp, feeder, loc, hist>>

\* next_track(): lock taken, _advance
NextTrack(t) ==
    /\ pc[t] = "next_track"
    /\ lock = NoThread
    /\ lock' = t
    /\ \E s \in ShuffleOutcomes :
          /\ deck' = Advanced(s)[1]
          /\ track_index' = Advanced(s)[2]
    /\ pc' = [pc EXCEPT ![t] = "play_meta"]
    /\ UNCHANGED <<cfg, injector, playlists, state, active_playlist, pending_playlist,
                   shuffle, audio_queue, stop_decode, pause_event, decode_thread,
                   sd_stream, ffmpeg_udp, feeder, loc, hist>>

\* prev_track(): lock taken, _rewind
PrevTrack(t) ==
    /\ pc[t] = "prev_track"
    /\ lock = NoThread
    /\ lock' = t
    /\ deck' = Rewound[1]
    /\ track_index' = Rewound[2]
    /\ pc' = [pc EXCEPT ![t] = "play_meta"]
    /\ UNCHANGED <<cfg, injector, playlists, state, active_playlist, pending_playlist,
                   shuffle, audio_queue, stop_decode, pause_event, decode_thread,
                   sd_stream, ffmpeg_udp, feeder, loc, hist>>

\* _rebuild_deck for playlist pl with the shuffle flag sh
Rebuilt(pl, sh, dk, s) ==
    IF pl = NoPlaylist THEN dk
    ELSE IF sh
    THEN IF dk = NoDeck THEN DeckNew(pl.n, ShuffleCarryOver, s) ELSE DeckReset(dk, pl.n, s)
    ELSE NoDeck

\* toggle_shuffle(): the flag is flipped and _rebuild_deck reads the active
\* playlist and its number of tracks
ToggleShuffle(t) ==
    /\ pc[t] = "toggle_shuffle"
    /\ shuffle' = ~shuffle
    /\ pc' = [pc EXCEPT ![t] = "toggle_rebuild"]
    /\ loc' = [loc EXCEPT ![t].pl = active_playlist]
    /\ UNCHANGED <<cfg, injector, playlists, state, active_playlist, pending_playlist,
                   track_index, deck, audio_queue, stop_decode, pause_event, lock,
                   decode_thread, sd_stream, ffmpeg_udp, feeder, hist>>

\* toggle_shuffle(): _rebuild_deck builds, resets or drops the deck for the
\* number of tracks it read
ToggleRebuild(t) ==
    /\ pc[t] = "toggle_rebuild"
    /\ \E s \in Perms(loc[t].pl.n) :
          deck' = Rebuilt(loc[t].pl, shuffle, deck, s)
    /\ Finish(t, AfterChangePc(t))
    /\ UNCHANGED <<cfg, injector, playlists, state, active_playlist, pending_playlist,
                   track_index, shuffle, audio_queue, stop_decode, pause_event,
                   decode_thread, sd_stream, ffmpeg_udp, feeder, hist>>


\* switch_to() falling back to the first playlist for a name it does not know
SwitchToFallback(t) ==
    /\ pc[t] = "switch_to"
    /\ IF loc[t].name \notin PlaylistNames(playlists) /\ Len(playlists) = 0
       THEN Leave(t)
       ELSE /\ pc' = [pc EXCEPT ![t] = "switch_locked"]
            /\ loc' = [loc EXCEPT ![t].pl =
                          IF loc[t].name \in PlaylistNames(playlists)
                          THEN Lookup(playlists, loc[t].name)
                          ELSE playlists[1]]
            /\ UNCHANGED lock
    /\ UNCHANGED <<cfg, injector, playlists, state, active_playlist, pending_playlist,
                   track_index, shuffle, deck, audio_queue, stop_decode,
                   pause_event, decode_thread, sd_stream, ffmpeg_udp, feeder,
                   hist>>

\* switch_to(): the membership test and the lookup, before the lock
SwitchTo(t) ==
    /\ pc[t] = "switch_to"
    /\ IF loc[t].name \notin PlaylistNames(playlists)
       THEN Leave(t)
       ELSE /\ pc' = [pc EXCEPT ![t] = "switch_locked"]
            /\ loc' = [loc EXCEPT ![t].pl = Lookup(playlists, loc[t].name)]
            /\ UNCHANGED lock
    /\ UNCHANGED <<cfg, injector, playlists, state, active_playlist, pending_playlist,
                   track_index, shuffle, deck, audio_queue, stop_decode,
                   pause_event, decode_thread, sd_stream, ffmpeg_udp, feeder,
                   hist>>

\* switch_to() that never defers to the track end
SwitchNowAlways(imm, pl) == TRUE

\* the condition under which switch_to activates at once
SwitchNow(imm, pl) ==
    imm \/ Transition(pl) = "immediate" \/ active_playlist = NoPlaylist

\* switch_to(): under the lock, activate now or store in the pending slot
SwitchLocked(t) ==
    /\ pc[t] = "switch_locked"
    /\ lock = NoThread
    /\ IF SwitchNow(loc[t].imm, loc[t].pl)
       THEN /\ lock' = t
            /\ pc' = [pc EXCEPT ![t] = "activate"]
            /\ UNCHANGED <<loc, pending_playlist, hist>>
       ELSE /\ pending_playlist' = loc[t].pl
            /\ hist' = [hist EXCEPT !.stores = @ + 1]
            /\ pc' = [pc EXCEPT ![t] = AfterChangePc(t)]
            /\ loc' = [loc EXCEPT ![t] = IF cfg.web THEN @ ELSE NoLocals]
            /\ lock' = IF cfg.web THEN t ELSE NoThread
    /\ UNCHANGED <<cfg, injector, playlists, state, active_playlist, track_index, shuffle,
                   deck, audio_queue, stop_decode, pause_event, decode_thread,
                   sd_stream, ffmpeg_udp, feeder>>

\* reload_playlists(): current_name is read
ReloadPlaylists(t) ==
    /\ pc[t] = "reload_playlists"
    /\ loc' = [loc EXCEPT ![t].name = active_playlist.name]
    /\ pc' = [pc EXCEPT ![t] = "reload_load"]
    /\ UNCHANGED <<cfg, injector, playlists, state, active_playlist, pending_playlist,
                   track_index, shuffle, deck, audio_queue, stop_decode,
                   pause_event, lock, decode_thread, sd_stream, ffmpeg_udp,
                   feeder, hist>>

\* reload_playlists(): load_playlists and the decision to activate
ReloadLoad(t) ==
    /\ pc[t] = "reload_load"
    /\ \E layout \in Layouts :
          LET new == Discover(layout, hist.reloads) IN
          /\ playlists' = new
          /\ IF (loc[t].name = "" \/ loc[t].name \notin PlaylistNames(new))
                /\ Len(new) > 0
             THEN /\ pc' = [pc EXCEPT ![t] = "activate"]
                  /\ loc' = [loc EXCEPT ![t].pl = new[1]]
                  /\ UNCHANGED lock
             ELSE Finish(t, AfterChangePc(t))
    /\ UNCHANGED <<cfg, injector, state, active_playlist, pending_playlist, track_index,
                   shuffle, deck, audio_queue, stop_decode, pause_event,
                   decode_thread, sd_stream, ffmpeg_udp, feeder, hist>>

(***************************************************************************)
(* _activate and _play_current, run by control threads and, at a track     *)
(* end, by the decoder thread.                                             *)
(***************************************************************************)
Activate(t) ==
    /\ pc[t] = "activate"
    /\ active_playlist' = loc[t].pl
    /\ track_index' = 0
    /\ \E s \in Perms(loc[t].pl.n) :
          deck' = Rebuilt(loc[t].pl, shuffle, NoDeck, s)
    /\ pc' = [pc EXCEPT ![t] = "play_meta"]
    /\ UNCHANGED <<cfg, injector, playlists, state, pending_playlist, shuffle, audio_queue,
                   stop_decode, pause_event, lock, decode_thread, sd_stream,
                   ffmpeg_udp, feeder, loc, hist>>

\* where a thread continues when _play_current returns
AfterPlayPc(t) ==
    IF loc[t].op = "reload_playlists" /\ cfg.web THEN "notify_state" ELSE Home(t)

\* the MetadataInjector exists once _start_udp has run; its stdin is the
\* encoder's
MetaInjector == cfg.udp /\ hist.starts > 0

\* a sink receives bytes: remembered when it happens after stop() returned
Sunk == [hist EXCEPT !.leak = @ \/ hist.phase = "stopped"]

\* a chunk taken from the queue goes to the sink that took it; it is remembered
\* when the other sink was open and so never sees this chunk
SunkAlone(other) == [Sunk EXCEPT !.solo = @ \/ other]

\* _play_current up to the notifications: the track is chosen, metadata and
\* sidecars are written, the injector writes its packets to the encoder, and
\* broadcast_track_change raises with a web server attached (webserver.py
\* _build_state reads attributes the Controller does not have)
PlayMeta(t) ==
    /\ pc[t] = "play_meta"
    /\ IF active_playlist = NoPlaylist \/ active_playlist.n = 0
       THEN /\ Finish(t, AfterPlayPc(t))
            /\ UNCHANGED hist
       ELSE /\ hist' = IF MetaInjector /\ ffmpeg_udp THEN Sunk ELSE hist
            /\ IF cfg.web
               THEN Leave(t)
               ELSE /\ pc' = [pc EXCEPT ![t] = "play_stop"]
                    /\ loc' = [loc EXCEPT ![t].track =
                                  [pl |-> active_playlist.name, i |-> CurrentIndex]]
                    /\ UNCHANGED lock
    /\ UNCHANGED <<cfg, injector, playlists, state, active_playlist, pending_playlist,
                   track_index, shuffle, deck, audio_queue, stop_decode,
                   pause_event, decode_thread, sd_stream, ffmpeg_udp, feeder>>

\* _play_current: _stop_decode.set()
PlayStop(t) ==
    /\ pc[t] = "play_stop"
    /\ stop_decode' = TRUE
    /\ pc' = [pc EXCEPT ![t] = "play_join"]
    /\ UNCHANGED <<cfg, injector, playlists, state, active_playlist, pending_playlist,
                   track_index, shuffle, deck, audio_queue, pause_event, lock,
                   decode_thread, sd_stream, ffmpeg_udp, feeder, loc, hist>>

\* the thread _play_current joins when run by thread t, NoThread when the
\* join is skipped
JoinTarget(t) ==
    IF decode_thread # NoThread /\ Alive(decode_thread) THEN decode_thread ELSE NoThread

\* _play_current: the join is entered, skipped, or raises RuntimeError when
\* the thread to join is the running thread (threading.Thread.join)
PlayJoin(t) ==
    /\ pc[t] = "play_join"
    /\ IF JoinTarget(t) = NoThread
       THEN /\ pc' = [pc EXCEPT ![t] = "play_start"]
            /\ UNCHANGED <<loc, lock>>
       ELSE IF JoinTarget(t) = t
       THEN Leave(t)
       ELSE /\ pc' = [pc EXCEPT ![t] = "play_joining"]
            /\ loc' = [loc EXCEPT ![t].jt = JoinTarget(t)]
            /\ UNCHANGED lock
    /\ UNCHANGED <<cfg, injector, playlists, state, active_playlist, pending_playlist,
                   track_index, shuffle, deck, audio_queue, stop_decode,
                   pause_event, decode_thread, sd_stream, ffmpeg_udp, feeder,
                   hist>>

\* _play_current: join(timeout=3) returns
PlayJoining(t) ==
    /\ pc[t] = "play_joining"
    /\ ~Alive(loc[t].jt) \/ Stuck(loc[t].jt)
    /\ pc' = [pc EXCEPT ![t] = "play_start"]
    /\ loc' = [loc EXCEPT ![t].jt = NoThread]
    /\ UNCHANGED <<cfg, injector, playlists, state, active_playlist, pending_playlist,
                   track_index, shuffle, deck, audio_queue, stop_decode,
                   pause_event, lock, decode_thread, sd_stream, ffmpeg_udp,
                   feeder, hist>>

Unborn == {d \in DecIds : pc[d] = "unborn"}
Fresh == CHOOSE d \in Unborn : \A e \in Unborn : d <= e

\* _play_current: the stop flag is cleared, state = PLAYING, the new decoder
\* thread is created and started
PlayStart(t) ==
    /\ pc[t] = "play_start"
    /\ Unborn # {}
    /\ stop_decode' = FALSE
    /\ state' = PLAYING
    /\ decode_thread' = Fresh
    /\ pc' = [pc EXCEPT ![t] = AfterPlayPc(t), ![Fresh] = "d_loop"]
    /\ loc' = [loc EXCEPT ![t] = IF AfterPlayPc(t) = Home(t) THEN NoLocals ELSE @,
                          ![Fresh] = [NoLocals EXCEPT !.path = loc[t].track]]
    /\ lock' = IF AfterPlayPc(t) = Home(t) /\ lock = t THEN NoThread ELSE lock
    /\ UNCHANGED <<cfg, injector, playlists, active_playlist, pending_playlist, track_index,
                   shuffle, deck, audio_queue, pause_event, sd_stream, ffmpeg_udp,
                   feeder, hist>>

(***************************************************************************)
(* The decoder worker, _decode_loop.                                       *)
(***************************************************************************)
\* while not self._stop_decode.is_set()
DLoop(d) ==
    /\ pc[d] = "d_loop"
    /\ pc' = [pc EXCEPT ![d] = IF stop_decode THEN "d_exit" ELSE "d_gate"]
    /\ UNCHANGED <<cfg, injector, playlists, state, active_playlist, pending_playlist,
                   track_index, shuffle, deck, audio_queue, stop_decode,
                   pause_event, lock, decode_thread, sd_stream, ffmpeg_udp,
                   feeder, loc, hist>>

\* a decoder loop that does not wait at the pause gate
DGateOpen(d) ==
    /\ pc[d] = "d_gate"
    /\ IF stop_decode
       THEN /\ pc' = [pc EXCEPT ![d] = "d_exit"]
            /\ UNCHANGED loc
       ELSE /\ \E next \in {"d_put", "d_exit"} : pc' = [pc EXCEPT ![d] = next]
            /\ UNCHANGED loc
    /\ UNCHANGED <<cfg, injector, playlists, state, active_playlist, pending_playlist,
                   track_index, shuffle, deck, audio_queue, stop_decode,
                   pause_event, lock, decode_thread, sd_stream, ffmpeg_udp,
                   feeder, hist>>

\* self._pause_event.wait() returns, the stop signal is tested again, and
\* proc.stdout.read yields a chunk, or nothing at the end of the stream (at
\* once when the subprocess produces no data)
DGate(d) ==
    /\ pc[d] = "d_gate"
    /\ pause_event
    /\ IF stop_decode
       THEN /\ pc' = [pc EXCEPT ![d] = "d_exit"]
            /\ UNCHANGED loc
       ELSE /\ \E next \in {"d_put", "d_exit"} : pc' = [pc EXCEPT ![d] = next]
            /\ UNCHANGED loc
    /\ UNCHANGED <<cfg, injector, playlists, state, active_playlist, pending_playlist,
                   track_index, shuffle, deck, audio_queue, stop_decode,
                   pause_event, lock, decode_thread, sd_stream, ffmpeg_udp,
                   feeder, hist>>

\* the chunk a decoder holds, named by the decoder that read it
Chunk(d) == d

\* self._audio_queue.put(chunk, timeout=1.0) succeeds
DPut(d) ==
    /\ pc[d] = "d_put"
    /\ Len(audio_queue) < QueueMax
    /\ audio_queue' = Append(audio_queue, Chunk(d))
    /\ pc' = [pc EXCEPT ![d] = "d_loop"]
    /\ UNCHANGED <<cfg, injector, playlists, state, active_playlist, pending_playlist,
                   track_index, shuffle, deck, stop_decode, pause_event, lock,
                   decode_thread, sd_stream, ffmpeg_udp, feeder, loc, hist>>

\* the put times out (queue.Full) because nothing drains the full queue: the
\* chunk is given up
DPutTimeout(d) ==
    /\ pc[d] = "d_put"
    /\ Len(audio_queue) >= QueueMax
    /\ ~SinkDraining
    /\ pc' = [pc EXCEPT ![d] = IF stop_decode THEN "d_exit" ELSE "d_loop"]
    /\ UNCHANGED <<cfg, injector, playlists, state, active_playlist, pending_playlist,
                   track_index, shuffle, deck, audio_queue, stop_decode,
                   pause_event, lock, decode_thread, sd_stream, ffmpeg_udp,
                   feeder, loc, hist>>

\* the subprocess is killed; _on_track_end is called unless the stop signal
\* is set
DExit(d) ==
    /\ pc[d] = "d_exit"
    /\ IF stop_decode
       THEN /\ pc' = [pc EXCEPT ![d] = "dead"]
            /\ loc' = [loc EXCEPT ![d] = NoLocals]
       ELSE /\ pc' = [pc EXCEPT ![d] = "te_lock"]
            /\ loc' = [loc EXCEPT ![d] = [NoLocals EXCEPT !.op = "track_end"]]
    /\ UNCHANGED <<cfg, injector, playlists, state, active_playlist, pending_playlist,
                   track_index, shuffle, deck, audio_queue, stop_decode,
                   pause_event, lock, decode_thread, sd_stream, ffmpeg_udp,
                   feeder, hist>>

\* _on_track_end: under the lock, the pending playlist is taken, or _advance
TrackEnd(d) ==
    /\ pc[d] = "te_lock"
    /\ lock = NoThread
    /\ lock' = d
    /\ IF pending_playlist # NoPlaylist
       THEN /\ loc' = [loc EXCEPT ![d].pl = pending_playlist]
            /\ pending_playlist' = NoPlaylist
            /\ pc' = [pc EXCEPT ![d] = "activate"]
            /\ UNCHANGED <<deck, track_index>>
       ELSE /\ \E s \in ShuffleOutcomes :
                  /\ deck' = Advanced(s)[1]
                  /\ track_index' = Advanced(s)[2]
            /\ pc' = [pc EXCEPT ![d] = "play_meta"]
            /\ UNCHANGED <<loc, pending_playlist>>
    /\ UNCHANGED <<cfg, injector, playlists, state, active_playlist, shuffle, audio_queue,
                   stop_decode, pause_event, decode_thread, sd_stream,
                   ffmpeg_udp, feeder, hist>>

(***************************************************************************)
(* The sinks.                                                              *)
(***************************************************************************)
\* the sounddevice callback takes a chunk (get_nowait) and plays it
SoundcardCallback ==
    /\ sd_stream
    /\ audio_queue # << >>
    /\ audio_queue' = Tail(audio_queue)
    /\ hist' = SunkAlone(ffmpeg_udp)
    /\ UNCHANGED <<cfg, injector, playlists, state, active_playlist, pending_playlist,
                   track_index, shuffle, deck, stop_decode, pause_event, lock,
                   decode_thread, sd_stream, ffmpeg_udp, feeder, pc, loc>>

\* _udp_feed_loop: a chunk is taken from the queue and written to the
\* encoder's stdin; the write raises and ends the thread when the encoder is
\* gone
FeederFeed(f) ==
    /\ feeder[f] = "get"
    /\ audio_queue # << >>
    /\ audio_queue' = Tail(audio_queue)
    /\ IF ffmpeg_udp
       THEN /\ hist' = SunkAlone(sd_stream)
            /\ UNCHANGED feeder
       ELSE /\ feeder' = [feeder EXCEPT ![f] = "dead"]
            /\ UNCHANGED hist
    /\ UNCHANGED <<cfg, injector, playlists, state, active_playlist, pending_playlist,
                   track_index, shuffle, deck, stop_decode, pause_event, lock,
                   decode_thread, sd_stream, ffmpeg_udp, pc, loc>>

\* _udp_feed_loop: the get times out and the encoder is gone
FeederQuit(f) ==
    /\ feeder[f] = "get"
    /\ audio_queue = << >>
    /\ ~ffmpeg_udp
    /\ feeder' = [feeder EXCEPT ![f] = "dead"]
    /\ UNCHANGED <<cfg, injector, playlists, state, active_playlist, pending_playlist,
                   track_index, shuffle, deck, audio_queue, stop_decode,
                   pause_event, lock, decode_thread, sd_stream, ffmpeg_udp, pc,
                   loc, hist>>

Next ==
    \/ \E t \in Callers : \E o \in OpsOf(t) \ {"switch_to"} : Call(t, o, "", FALSE)
    \/ \E nm \in SwitchNames, imm \in BOOLEAN : Call(WEB, "switch_to", nm, imm)
    \/ \E t \in Callers :
          \/ Start(t) \/ Stop(t) \/ StopJoining(t) \/ StopOutputs(t)
          \/ Pause(t) \/ Resume(t) \/ NotifyState(t)
          \/ NextTrack(t) \/ PrevTrack(t) \/ ToggleShuffle(t) \/ ToggleRebuild(t)
          \/ SwitchTo(t) \/ SwitchLocked(t)
          \/ ReloadPlaylists(t) \/ ReloadLoad(t)
    \/ \E t \in Threads :
          \/ Activate(t) \/ PlayMeta(t) \/ PlayStop(t)
          \/ PlayJoin(t) \/ PlayJoining(t) \/ PlayStart(t)
    \/ \E d \in DecIds :
          \/ DLoop(d) \/ DGate(d) \/ DPut(d) \/ DPutTimeout(d)
          \/ DExit(d) \/ TrackEnd(d)
    \/ SoundcardCallback
    \/ \E f \in 1..MaxStarts : FeederFeed(f) \/ FeederQuit(f)

\* control calls come one at a time; decoder and sink threads run alongside
Init == InitWith(FALSE)

Spec == Init /\ [][Next]_vars

\* control calls of the two threads overlap
InitRace == InitWith(TRUE)

SpecRace == InitRace /\ [][Next]_vars


\* the thread the first _play_current creates
FirstDecoder == CHOOSE d \in DecIds : \A e \in DecIds : d <= e

\* The state after start() and pause() with no web server attached: the
\* decoder of the first track is parked at the pause gate (calls counts the
\* calls made from here on).
InitPaused ==
    /\ cfg = [web |-> FALSE, udp |-> TRUE, transition |-> "finish_track",
              default |-> "", overlap |-> FALSE]
    /\ playlists = Discover(<<<<"A", 2>>, <<"B", 1>>>>, 0)
    /\ state = PAUSED
    /\ active_playlist = playlists[1]
    /\ pending_playlist = NoPlaylist
    /\ track_index = 0
    /\ shuffle = FALSE
    /\ deck = NoDeck
    /\ audio_queue = << >>
    /\ stop_decode = FALSE
    /\ pause_event = FALSE
    /\ lock = NoThread
    /\ decode_thread = FirstDecoder
    /\ sd_stream \in BOOLEAN
    /\ ffmpeg_udp = TRUE
    /\ feeder = [f \in 1..MaxStarts |-> IF f = 1 THEN "get" ELSE "unborn"]
    /\ injector = NoInjector
    /\ pc = [t \in Threads |-> IF t \in Callers THEN "idle"
                               ELSE IF t = FirstDecoder THEN "d_gate" ELSE "unborn"]
    /\ loc = [t \in Threads |-> IF t = FirstDecoder
                                THEN [NoLocals EXCEPT !.path = [pl |-> "A", i |-> 0]]
                                ELSE NoLocals]
    /\ hist = [phase |-> "started", calls |-> 0, starts |-> 1, reloads |-> 0,
               leak |-> FALSE, stores |-> 0, solo |-> FALSE]

\* one call at a time, starting fresh or from the paused state
SpecPaused == (Init \/ InitPaused) /\ [][Next]_vars


(***************************************************************************)
(* Properties.                                                             *)
(***************************************************************************)
LiveDecoders == {d \in DecIds : Alive(d)}

\* positions of a thread inside _activate / _play_current
PlayPcs == {"activate", "play_meta", "play_stop", "play_join", "play_joining",
            "play_start"}

\* no control method and no track-end handling is under way
Quiet ==
    /\ \A t \in Callers : pc[t] = "idle"
    /\ \A d \in DecIds : pc[d] \notin PlayPcs \cup {"te_lock"}

\* C1: at every moment at most one decoder worker thread is alive.
C1_AtMostOneDecoder == Cardinality(LiveDecoders) <= 1

\* C2: when a decoder reaches natural EOF with no pending switch, its
\* track-end handling ends with a new decoder started for the track at the
\* advanced cursor and the state PLAYING.
C2_TrackEndStartsNext ==
    [][\A d \in DecIds :
          (loc[d].op = "track_end" /\ loc[d].pl = NoPlaylist /\ pc'[d] = "dead")
          => /\ state' = PLAYING
             /\ decode_thread' # decode_thread
             /\ pc'[decode_thread'] = "d_loop"
             /\ loc'[decode_thread'].path =
                   [pl |-> active_playlist.name, i |-> CurrentIndex]]_vars

\* C3: no thread ever joins its own thread handle: when _play_current runs on
\* the decoder thread the join is skipped.
C3_NeverSelfJoin == \A t \in Threads : pc[t] = "play_join" => JoinTarget(t) # t

\* C4: a decoder worker is running if and only if the state is PLAYING or
\* PAUSED (read whenever no control method or track-end handling is under way).
C4_DecoderIffPlaying == Quiet => ((LiveDecoders # {}) <=> (state \in {PLAYING, PAUSED}))


\* thread t leaves position p in this step
Leaves(t, p) == pc[t] = p /\ pc'[t] # p

DecodersUntouched == \A d \in DecIds : pc'[d] = pc[d] /\ loc'[d] = loc[d]

\* C5: with an active playlist and policy finish_track, a non-immediate
\* switch_to stores the named playlist in the pending slot (replacing what was
\* there) and leaves active playlist, cursor and decoder alone; the track-end
\* handling that finds the slot set empties it and activates exactly that
\* playlist with the cursor at 0.
C5_PendingSwitch ==
    [][\A t \in Threads :
          /\ (/\ Leaves(t, "switch_locked")
              /\ ~loc[t].imm
              /\ cfg.transition = "finish_track"
              /\ active_playlist # NoPlaylist)
             => /\ pending_playlist' = loc[t].pl
                /\ loc[t].pl.name = loc[t].name
                /\ UNCHANGED <<active_playlist, track_index, deck, decode_thread,
                               stop_decode, state>>
                /\ DecodersUntouched
          /\ (Leaves(t, "te_lock") /\ pending_playlist # NoPlaylist)
             => /\ pending_playlist' = NoPlaylist
                /\ pc'[t] = "activate"
                /\ loc'[t].pl = pending_playlist
          /\ (Leaves(t, "activate") /\ loc[t].op = "track_end")
             => /\ active_playlist' = loc[t].pl
                /\ track_index' = 0
                /\ pending_playlist' = pending_playlist
          /\ (Leaves(t, "te_lock") /\ pending_playlist = NoPlaylist)
             => /\ active_playlist' = active_playlist
                /\ pending_playlist' = NoPlaylist]_vars

\* two non-immediate switches were stored, and the decoder thread has made the
\* one named last active at its track end
C5_Witness ==
    \E d \in DecIds :
       /\ pc[d] = "play_meta"
       /\ loc[d].op = "track_end"
       /\ loc[d].pl = active_playlist
       /\ active_playlist.name = "B"
       /\ track_index = 0
       /\ pending_playlist = NoPlaylist
       /\ cfg.transition = "finish_track"
       /\ hist.stores = 2

\* C6: when switch_to activates at once (immediate flag, policy "immediate" or
\* no active playlist), then on return the named playlist is active, the cursor
\* is at the start, and a decoder for its first track is running with the
\* state PLAYING.
C6_ImmediateSwitch ==
    [][\A t \in Callers :
          (loc[t].op = "switch_to" /\ pc[t] \in PlayPcs /\ pc'[t] = "idle")
          => /\ active_playlist'.name = loc[t].name
             /\ track_index' = 0
             /\ state' = PLAYING
             /\ decode_thread' # NoThread
             /\ pc'[decode_thread'] = "d_loop"
             /\ loc'[decode_thread'].path =
                   [pl |-> loc[t].name, i |-> CurrentIndex']]_vars

\* C7: switch_to with a name that is not in the playlist set returns with
\* active playlist, pending slot, cursor, deck, engine state and decoder
\* unchanged and without notifying.
C7_UnknownNameNoOp ==
    [][\A t \in Callers :
          (Leaves(t, "switch_to") /\ loc[t].name \notin PlaylistNames(playlists))
          => /\ pc'[t] = "idle"
             /\ UNCHANGED <<active_playlist, pending_playlist, track_index, deck,
                            shuffle, state, decode_thread, stop_decode,
                            pause_event, playlists, audio_queue, lock>>
             /\ DecodersUntouched]_vars

\* switch_to was called with an unknown name while a decoder plays and a
\* switch is pending
C7_Witness ==
    /\ pc[WEB] = "switch_to"
    /\ loc[WEB].name \notin PlaylistNames(playlists)
    /\ playlists # << >>
    /\ pending_playlist # NoPlaylist
    /\ state = PLAYING
    /\ Alive(decode_thread)

\* C8: pause() sets PAUSED and closes the gate only from PLAYING, resume() sets
\* PLAYING and opens the gate only from PAUSED; from any other state each one
\* returns with state, gate and decoder unchanged and without notifying.
C8_PauseResumeGuards ==
    [][\A t \in Callers :
          /\ Leaves(t, "pause")
             => IF state = PLAYING
                THEN /\ state' = PAUSED
                     /\ ~pause_event'
                     /\ UNCHANGED <<decode_thread, stop_decode>>
                     /\ DecodersUntouched
                ELSE /\ pc'[t] = "idle"
                     /\ UNCHANGED <<state, pause_event, decode_thread, stop_decode>>
                     /\ DecodersUntouched
          /\ Leaves(t, "resume")
             => IF state = PAUSED
                THEN /\ state' = PLAYING
                     /\ pause_event'
                     /\ UNCHANGED <<decode_thread, stop_decode>>
                     /\ DecodersUntouched
                ELSE /\ pc'[t] = "idle"
                     /\ UNCHANGED <<state, pause_event, decode_thread, stop_decode>>
                     /\ DecodersUntouched]_vars

\* pause() has paused a playing decoder and pause() is called again
C8_Witness ==
    \E t \in Callers :
       /\ pc[t] = "pause"
       /\ state = PAUSED
       /\ ~pause_event
       /\ Alive(decode_thread)

\* C9: a decoder passes the pause gate only when the gate is open, and while
\* the state is PAUSED only to exit on the stop signal, so that after pause()
\* it puts at most the chunk it holds; resume() opens the gate and leaves the
\* decoder, its track and its position as they were.
C9_PausedDecoderParks ==
    [][/\ \A d \in DecIds :
             Leaves(d, "d_gate")
             => /\ pause_event
                /\ state = PAUSED => (stop_decode /\ pc'[d] = "d_exit")
       /\ \A d \in DecIds :
             (state = PAUSED /\ Len(audio_queue') > Len(audio_queue) /\ pc'[d] # pc[d])
             => pc[d] = "d_put" /\ pc'[d] = "d_loop"
       /\ \A t \in Callers :
             (Leaves(t, "resume") /\ state = PAUSED)
             => /\ pause_event'
                /\ decode_thread' = decode_thread
                /\ DecodersUntouched]_vars

\* the state is PAUSED, the decoder has put the chunk it held and is parked at
\* the closed gate
C9_Witness ==
    /\ state = PAUSED
    /\ ~pause_event
    /\ ~stop_decode
    /\ decode_thread # NoThread
    /\ pc[decode_thread] = "d_gate"
    /\ audio_queue = <<Chunk(decode_thread)>>

\* C10: stop() returns with the state STOPPED and both sinks closed, and from
\* then until start() is called again the sinks stay closed and no chunk
\* reaches the soundcard callback or the encoder's stdin.
C10_NoBytesAfterStop ==
    [][/\ ~hist'.leak
       /\ hist'.phase = "stopped" => (~sd_stream' /\ ~ffmpeg_udp')
       /\ \A t \in Callers :
             Leaves(t, "stop_outputs") => (state' = STOPPED /\ pc'[t] = "idle")]_vars

\* after stop() returned a track change started a decoder, which has put a
\* chunk in the queue that no sink takes
C10_Witness ==
    /\ hist.phase = "stopped"
    /\ state = PLAYING
    /\ Alive(decode_thread)
    /\ audio_queue # << >>
    /\ \A t \in Callers : pc[t] = "idle"

\* C11: the PCM ring only holds chunks of the track now playing: once a track
\* change has started the new decoder (and no control method or track-end
\* handling is under way) every chunk in the ring comes from that decoder.
C11_RingHoldsCurrentTrack ==
    Quiet => \A i \in 1..Len(audio_queue) : audio_queue[i] = Chunk(decode_thread)

\* C12: once _play_current has started the decoder of a new track, the decoder
\* of the previous track never puts another chunk in the ring: every chunk is
\* put by the decoder the controller's handle names.
C12_OldDecoderSilent ==
    [][\A d \in DecIds :
          (pc[d] = "d_put" /\ pc'[d] = "d_loop" /\ Len(audio_queue') > Len(audio_queue))
          => d = decode_thread]_vars

\* C13: with the soundcard sink and the UDP sink both open, no chunk is
\* delivered to one sink only: a chunk taken by one sink is not withheld from
\* the other.
C13_BothSinksGetEveryChunk == ~hist.solo

\* C14: no control operation raises to its caller and each completes its state
\* change: a control thread inside _activate / _play_current leaves it only at
\* its end, after the decoder was started, or at its first test when there is
\* nothing to play.
C14_ControlNeverRaises ==
    [][\A t \in Callers :
          (pc[t] \in PlayPcs /\ pc'[t] \notin PlayPcs)
          => \/ pc[t] = "play_start"
             \/ /\ pc[t] = "play_meta"
                /\ active_playlist = NoPlaylist \/ active_playlist.n = 0]_vars

\* C15: a decoder whose subprocess gives no data takes the EOF path and its
\* track-end handling carries on to the next track, so the engine never stalls:
\* the decoder thread ends its track-end handling only after it has started
\* the next decoder.
C15_TrackEndNeverStalls ==
    [][\A d \in DecIds :
          (loc[d].op = "track_end" /\ pc[d] \in PlayPcs /\ pc'[d] = "dead")
          => /\ pc[d] = "play_start"
             /\ Alive(decode_thread)']_vars

(***************************************************************************)
(* The ShuffleDeck on its own: a deck of any size and carry-over is built, *)
(* then advanced, rewound and reset in any order.  The controller's fields *)
(* stay as constructed.  hist records the carry-over asked for, whether    *)
(* the size was changed, and the indexes visited (current()) by advances   *)
(* since the head of the permutation; dirty tells that a rewind came in    *)
(* between (the visits are then no longer recorded).                       *)
(***************************************************************************)
MaxDeckN == 4      \* largest deck size
MaxCarry == 2      \* largest carry-over asked for

\* the carry-over values a configuration may hold: playout.shuffle_carry_over
\* is taken from the YAML file as it is
CarryValues == {0 - 1} \cup 0..MaxCarry

Others == <<cfg, injector, playlists, state, active_playlist, pending_playlist,
            track_index, shuffle, audio_queue, stop_decode, pause_event, lock,
            decode_thread, sd_stream, ffmpeg_udp, feeder, pc, loc>>

\* the controller's fields apart from deck, injector and hist
ConstructedVars == <<cfg, playlists, state, active_playlist, pending_playlist,
                     track_index, shuffle, audio_queue, stop_decode, pause_event,
                     lock, decode_thread, sd_stream, ffmpeg_udp, feeder, pc, loc>>

ConstructedOthers ==
    /\ cfg = [web |-> FALSE, udp |-> TRUE, transition |-> "finish_track",
              default |-> "", overlap |-> FALSE]
    /\ playlists = << >>
    /\ state = STOPPED
    /\ active_playlist = NoPlaylist
    /\ pending_playlist = NoPlaylist
    /\ track_index = 0
    /\ shuffle = TRUE
    /\ audio_queue = << >>
    /\ stop_decode = FALSE
    /\ pause_event = TRUE
    /\ lock = NoThread
    /\ decode_thread = NoThread
    /\ sd_stream = FALSE
    /\ ffmpeg_udp = FALSE
    /\ feeder = [f \in 1..MaxStarts |-> "unborn"]
    /\ pc = [t \in Threads |-> IF t \in Callers THEN "idle" ELSE "unborn"]
    /\ loc = [t \in Threads |-> NoLocals]

\* the history after a rebuild: the head has been visited
AtHead(dk, h, op) ==
    [h EXCEPT !.last = op, !.dirty = FALSE, !.visited = <<DeckCurrent(dk)>>]

DeckInit ==
    /\ ConstructedOthers
    /\ injector = NoInjector
    /\ \E n \in 1..MaxDeckN, carry \in CarryValues :
          \E s \in Perms(n) :
             /\ deck = DeckNew(n, carry, s)
             /\ hist = AtHead(deck, [carry |-> carry, resized |-> FALSE,
                                     last |-> "", dirty |-> FALSE,
                                     visited |-> << >>], "new")

DeckDoAdvance ==
    /\ \E s \in Perms(deck.n) : deck' = DeckAdvance(deck, s)
    /\ hist' = IF deck'.pos = 0
               THEN AtHead(deck', hist, "rebuild")
               ELSE [hist EXCEPT !.last = "advance",
                                 !.visited = IF hist.dirty THEN << >>
                                             ELSE Append(@, DeckCurrent(deck'))]
    /\ UNCHANGED Others

DeckDoRewind ==
    /\ deck' = DeckRewind(deck)
    /\ hist' = [hist EXCEPT !.last = "rewind",
                            !.dirty = @ \/ deck.pos > 0,
                            !.visited = IF deck.pos > 0 THEN << >> ELSE @]
    /\ UNCHANGED Others

DeckDoReset ==
    /\ \/ \E n \in 1..MaxDeckN : \E s \in Perms(n) :
             /\ deck' = DeckReset(deck, n, s)
             /\ hist' = AtHead(deck', [hist EXCEPT !.resized = @ \/ n # deck.n],
                               "reset")
       \/ \E s \in Perms(deck.n) :
             /\ deck' = DeckResetSame(deck, s)
             /\ hist' = AtHead(deck', hist, "reset")
    /\ UNCHANGED Others

DeckNext == DeckDoAdvance \/ DeckDoRewind \/ DeckDoReset

SpecDeck == DeckInit /\ [][DeckNext]_vars

IsPerm(d, n) == Len(d) = n /\ Range(d) = 0..(n - 1)

DeckOk(dk) == IsPerm(dk.deck, dk.n) /\ dk.pos \in 0..(dk.n - 1)

\* C16: under any sequence of advance, rewind and reset the deck is a
\* permutation of 0..N-1 and the cursor is within 0..N-1; advance rebuilds only
\* when it moves the cursor past the last element and rewind never does, and
\* the N positions passed by advances from the head up to the rebuild are every
\* index of 0..N-1 exactly once.
C16_DeckPermutation ==
    [][/\ DeckOk(deck)
       /\ DeckOk(deck')
       /\ hist'.last = "advance"
          => deck'.deck = deck.deck /\ deck'.pos = deck.pos + 1
       /\ hist'.last = "rewind"
          => /\ deck'.deck = deck.deck
             /\ deck'.tail = deck.tail
             /\ deck'.pos = Max(0, deck.pos - 1)
       /\ hist'.last = "rebuild"
          => /\ deck.pos = deck.n - 1
             /\ ~hist.dirty => IsPerm(hist.visited, deck.n)]_vars

\* a deck of 4 has been advanced from its head to its last element
C16_Witness ==
    /\ hist.last = "advance"
    /\ ~hist.dirty
    /\ deck.n = 4
    /\ deck.pos = 3
    /\ Len(hist.visited) = 4

\* C17: after a rebuild caused by exhausting a permutation the first element of
\* the new permutation is not among the last c elements of the previous one,
\* whatever the shuffle gave: for the deck's carry-over, for the carry-over
\* asked for when N > 2c, and for N = 4 with c = 2.
C17_CarryOver ==
    [][hist'.last = "rebuild"
       => /\ deck'.deck[1] \notin Range(LastK(deck.deck, deck.c))
          /\ (~hist.resized /\ (deck.n > 2 * hist.carry \/ (deck.n = 4 /\ hist.carry = 2)))
             => deck'.deck[1] \notin Range(LastK(deck.deck, hist.carry))]_vars

\* a deck of 4 with carry-over 2 was exhausted and rebuilt
C17_Witness ==
    /\ hist.last = "rebuild"
    /\ deck.n = 4
    /\ hist.carry = 2
    /\ deck.c = 2
    /\ ~hist.resized

(***************************************************************************)
(* ID3 tags and MPEG-TS packets (src/haze/mpegts_meta.py).  Byte strings   *)
(* are sequences of numbers 0..255.                                        *)
(***************************************************************************)
TS_PACKET_SIZE == 188
TS_SYNC_BYTE == 71
METADATA_PID == 33

\* four groups of 8 bits where the code takes 7
EncodePlain(n) ==
    <<(n \div 16777216) % 256, (n \div 65536) % 256, (n \div 256) % 256, n % 256>>

\* _encode_syncsafe: result[i] = n & 0x7F; n >>= 7, for i = 3, 2, 1, 0
EncodeSyncsafe(n) ==
    <<(n \div 2097152) % 128, (n \div 16384) % 128, (n \div 128) % 128, n % 128>>

\* struct.pack(">I", n)
PackUInt32(n) ==
    <<(n \div 16777216) % 256, (n \div 65536) % 256, (n \div 256) % 256, n % 256>>

\* _id3_text_frame, frame_id and text given as their encoded bytes
Id3TextFrame(frame_id, text) ==
    frame_id \o PackUInt32(Len(text) + 1) \o <<0>> \o <<3>> \o text

TIT2 == <<84, 73, 84, 50>>
TPE1 == <<84, 80, 69, 49>>
TALB == <<84, 65, 76, 66>>

Id3Frames(title, artist, album) ==
    (IF title # << >> THEN Id3TextFrame(TIT2, title) ELSE << >>)
    \o (IF artist # << >> THEN Id3TextFrame(TPE1, artist) ELSE << >>)
    \o (IF album # << >> THEN Id3TextFrame(TALB, album) ELSE << >>)

\* build_id3_tag: "ID3", version 3.0, flags 0, size, frames
BuildId3Tag(title, artist, album) ==
    LET frames == Id3Frames(title, artist, album)
    IN  <<73, 68, 51>> \o <<3, 0>> \o <<0>> \o EncodeSyncsafe(Len(frames)) \o frames

\* data[from : from + n] of Python, from 0-based
Slice(data, from, n) == SubSeq(data, from + 1, Min(from + n, Len(data)))

\* a packet whose short payload is left as it is
TsPacketNoPad(pid, payload, pusi, cc) ==
    <<TS_SYNC_BYTE, (IF pusi THEN 64 ELSE 0) + ((pid \div 256) % 32), pid % 256,
      16 + (cc % 16)>> \o payload

\* _ts_packet: the 4-byte header, the payload padded with 0xFF or cut to 184.
\* The bit groups joined by | do not overlap, so | is +.
TsPacket(pid, payload, pusi, cc) ==
    LET header == <<TS_SYNC_BYTE, (IF pusi THEN 64 ELSE 0) + ((pid \div 256) % 32),
                    pid % 256, 16 + (cc % 16)>>
        max_payload == TS_PACKET_SIZE - 4
        body == IF Len(payload) < max_payload
                THEN payload \o [i \in 1..(max_payload - Len(payload)) |-> 255]
                ELSE SubSeq(payload, 1, max_payload)
    IN  header \o body

\* the loop of _inject: the packets made from data[offset:], the first with
\* continuity counter cc (_next_cc returns the counter and stores cc + 1 & 0x0F)
RECURSIVE InjectPackets(_, _, _, _)
InjectPackets(data, offset, pusi, cc) ==
    IF offset >= Len(data)
    THEN << >>
    ELSE <<TsPacket(METADATA_PID, Slice(data, offset, TS_PACKET_SIZE - 4), pusi, cc)>>
         \o InjectPackets(data, offset + (TS_PACKET_SIZE - 4), FALSE, (cc + 1) % 16)

(***************************************************************************)
(* The MetadataInjector on its own, over the life of the process: every    *)
(* start() of the UDP sink makes a new injector on the new encoder's       *)
(* stdin, stop() closes that stdin, and every _play_current calls update.  *)
(* hist records the packets the last update wrote to the encoder and the   *)
(* continuity counter of the last packet written so far (-1: none).        *)
(***************************************************************************)
TitleLens == {0, 1, 164, 170, 174}
ArtistLens == {0, 174}
AlbumLens == {0, 3}

\* the encoded bytes of a text of the given length; Text(1, 119) is "x"
Text(len, seed) == [i \in 1..len |-> (seed + i) % 256]

Tags ==
    {BuildId3Tag(Text(t, 119), Text(a, 64), Text(b, 96)) :
        t \in TitleLens, a \in ArtistLens, b \in AlbumLens}

\* MetadataInjector(self._ffmpeg_udp.stdin)
NewInjector == [cc |-> 0, id3 |-> << >>, stdin |-> "open"]

InjInit ==
    /\ ConstructedOthers
    /\ deck = NoDeck
    /\ injector = NewInjector
    /\ hist = [last |-> "new", out |-> << >>, lastcc |-> -1]

\* _start_udp: a new injector replaces the old one
InjNew ==
    /\ injector.stdin = "closed"
    /\ injector' = NewInjector
    /\ hist' = [hist EXCEPT !.last = "new", !.out = << >>]
    /\ UNCHANGED <<ConstructedVars, deck>>

\* _stop_outputs closes the encoder's stdin; the injector object stays
InjClose ==
    /\ injector.stdin = "open"
    /\ injector' = [injector EXCEPT !.stdin = "closed"]
    /\ hist' = [hist EXCEPT !.last = "close", !.out = << >>]
    /\ UNCHANGED <<ConstructedVars, deck>>

\* update(): the tag is built and _inject writes its packets; on a closed
\* stdin the first write raises after _next_cc has counted, and the exception
\* is swallowed
InjUpdate ==
    /\ \E tag \in Tags :
          LET pkts == InjectPackets(tag, 0, TRUE, injector.cc) IN
          IF injector.stdin = "open"
          THEN /\ injector' = [injector EXCEPT !.id3 = tag,
                                               !.cc = (@ + Len(pkts)) % 16]
               /\ hist' = [last |-> "update", out |-> pkts,
                           lastcc |-> pkts[Len(pkts)][4] % 16]
          ELSE /\ injector' = [injector EXCEPT !.id3 = tag, !.cc = (@ + 1) % 16]
               /\ hist' = [hist EXCEPT !.last = "update", !.out = << >>]
    /\ UNCHANGED <<ConstructedVars, deck>>

InjNext == InjNew \/ InjClose \/ InjUpdate

SpecInjector == InjInit /\ [][InjNext]_vars

\* the continuity counter of a packet
CcOf(pkt) == pkt[4] % 16

\* C18: every packet the injector emits is 188 bytes long and starts with 0x47,
\* and the continuity counters of successive emitted packets run 0, 1, ..., 15,
\* 0, ... without gap or repeat over the life of the process, across updates,
\* failed writes and stop()/start() cycles of the UDP sink.
C18_ContinuityCounter ==
    [][hist'.last = "update"
       => \A i \in 1..Len(hist'.out) :
             /\ Len(hist'.out[i]) = TS_PACKET_SIZE
             /\ hist'.out[i][1] = TS_SYNC_BYTE
             /\ CcOf(hist'.out[i]) =
                   ((IF i = 1 THEN hist.lastcc ELSE CcOf(hist'.out[i - 1])) + 1) % 16]_vars

\* C19: an update with a tag of L bytes emits ceil(L/184) packets; packet k is
\* the header 0x47, PUSI bit (only in packet 0) with the high PID bits, the PID
\* low byte, 0x10 | cc, followed by tag bytes 184k..184k+183, padded with 0xFF
\* to 184 bytes.
C19_TsFraming ==
    [][(hist'.last = "update" /\ injector.stdin = "open")
       => LET tag == injector'.id3
              out == hist'.out
          IN  /\ Len(out) = (Len(tag) + 183) \div 184
              /\ \A k \in 0..(Len(out) - 1) :
                    LET p == out[k + 1] IN
                    /\ Len(p) = 188
                    /\ p[1] = 71
                    /\ p[2] = (IF k = 0 THEN 64 ELSE 0) + ((METADATA_PID \div 256) % 32)
                    /\ p[3] = METADATA_PID % 256
                    /\ p[4] = 16 + ((injector.cc + k) % 16)
                    /\ \A j \in 1..184 :
                          p[4 + j] = IF 184 * k + j <= Len(tag)
                                     THEN tag[184 * k + j]
                                     ELSE 255]_vars

\* a tag of 190 bytes has been sent as two packets
C19_Witness ==
    /\ hist.last = "update"
    /\ Len(injector.id3) = 190
    /\ Len(hist.out) = 2
    /\ hist.out[2][5] = injector.id3[185]
    /\ hist.out[2][11] = 255

\* ---------------------------------------------------------------------------
\* _encode_syncsafe and build_id3_tag applied to chosen inputs
\* ---------------------------------------------------------------------------
MaxSyncN == 300

\* the values around which a 7-bit group carries into the next
SyncEdges == {16383, 16384, 2097151, 2097152, 268435454, 268435455}

SyncInputs == (0..MaxSyncN) \cup SyncEdges

SyncInit ==
    /\ ConstructedOthers
    /\ deck = NoDeck
    /\ injector = NoInjector
    /\ hist = [last |-> "new", n |-> 0, bytes |-> << >>, args |-> << >>]

\* _encode_syncsafe(n)
SyncEncode ==
    /\ \E n \in SyncInputs :
          hist' = [last |-> "encode", n |-> n, bytes |-> EncodeSyncsafe(n),
                   args |-> << >>]
    /\ UNCHANGED <<ConstructedVars, deck, injector>>

\* build_id3_tag(title, artist, album)
SyncBuildTag ==
    /\ \E t \in TitleLens, a \in ArtistLens, b \in AlbumLens :
          hist' = [last |-> "tag",
                   n |-> Len(Id3Frames(Text(t, 119), Text(a, 64), Text(b, 96))),
                   bytes |-> BuildId3Tag(Text(t, 119), Text(a, 64), Text(b, 96)),
                   args |-> <<Text(t, 119), Text(a, 64), Text(b, 96)>>]
    /\ UNCHANGED <<ConstructedVars, deck, injector>>

SyncNext == SyncEncode \/ SyncBuildTag

SpecSyncsafe == SyncInit /\ [][SyncNext]_vars

\* four 7-bit groups read big-endian
DecodeSyncsafe(b) == b[1] * 2097152 + b[2] * 16384 + b[3] * 128 + b[4]

\* C20: for 0 <= n < 2^28 the four bytes of _encode_syncsafe(n) have their high
\* bit zero and their 7-bit groups, read big-endian, give n back; the size
\* field of a built tag (bytes 6..9 of the header) decodes to the length of the
\* frames after the 10-byte header.
C20_SyncsafeRoundTrip ==
    /\ hist.last = "encode"
          => /\ Len(hist.bytes) = 4
             /\ \A i \in 1..4 : hist.bytes[i] \in 0..127
             /\ DecodeSyncsafe(hist.bytes) = hist.n
    /\ hist.last = "tag"
          => LET size == SubSeq(hist.bytes, 7, 10) IN
             /\ \A i \in 1..4 : size[i] \in 0..127
             /\ DecodeSyncsafe(size) = Len(hist.bytes) - 10
             /\ Len(hist.bytes) - 10 = hist.n

\* the largest input has been encoded
C20_Witness ==
    /\ hist.last = "encode"
    /\ hist.n = 268435455
    /\ hist.bytes = <<127, 127, 127, 127>>

\* C21: each text frame of a built tag is the 4-byte frame id, the 4-byte
\* big-endian size len(text) + 1, two flag bytes 00 00, the encoding byte 03 and
\* the text, 11 + len(text) bytes in all; frames appear only for non-empty
\* fields, in the order TIT2, TPE1, TALB; build_id3_tag("x", "", "") is the
\* header 49 44 33 03 00 00, the size 00 00 00 0D and the frame
\* 54 49 54 32 00 00 00 02 00 00 03 78.
C21_TextFrameLayout ==
    hist.last = "tag"
       => LET BigEndian(n) == <<(n \div 16777216) % 256, (n \div 65536) % 256,
                                (n \div 256) % 256, n % 256>>
              Frame(id, text) ==
                  IF text = << >> THEN << >>
                  ELSE id \o BigEndian(Len(text) + 1) \o <<0, 0>> \o <<3>> \o text
              frames == SubSeq(hist.bytes, 11, Len(hist.bytes))
          IN  /\ frames = Frame(<<84, 73, 84, 50>>, hist.args[1])
                          \o Frame(<<84, 80, 69, 49>>, hist.args[2])
                          \o Frame(<<84, 65, 76, 66>>, hist.args[3])
              /\ hist.args = <<(<<120>>), << >>, << >>>>
                    => hist.bytes = <<73, 68, 51, 3, 0, 0>> \o <<0, 0, 0, 13>>
                                    \o <<84, 73, 84, 50, 0, 0, 0, 2, 0, 0, 3, 120>>

\* C22: when reload_playlists() has rediscovered the playlists: if the name of
\* the previously active playlist is gone, the first playlist of the new set is
\* activated, or there is no active playlist when the new set is empty; if the
\* name is still there, the cursor, the deck and the running decoder are left
\* as they are and nothing is activated.
C22_ReloadKeepsOrReplaces ==
    [][\A t \in Callers :
          (pc[t] = "reload_load" /\ pc'[t] # "reload_load")
          => IF loc[t].name # "" /\ loc[t].name \in PlaylistNames(playlists')
             THEN /\ pc'[t] # "activate"
                  /\ UNCHANGED <<track_index, deck, decode_thread, stop_decode>>
             ELSE IF playlists' = << >>
             THEN active_playlist' = NoPlaylist
             ELSE pc'[t] = "activate" /\ loc'[t].pl = playlists'[1]]_vars

\* C23: with shuffle off next_track() moves the cursor to (cursor + 1) mod n and
\* prev_track() to (cursor - 1) mod n; each call returns having started a
\* decoder for the track at the new cursor (deck.current() with shuffle on);
\* with no active playlist both leave cursor, deck, state and decoder alone.
C23_NextPrevTrack ==
    [][\A t \in Callers :
          /\ (pc[t] \in {"next_track", "prev_track"} /\ pc'[t] # pc[t])
             => IF active_playlist = NoPlaylist
                THEN UNCHANGED <<track_index, deck, state>>
                ELSE ~shuffle =>
                        track_index' =
                           (track_index + (IF pc[t] = "next_track" THEN 1 ELSE -1))
                              % active_playlist.n
          /\ (loc[t].op \in {"next_track", "prev_track"}
                /\ pc[t] \in PlayPcs /\ pc'[t] = "idle")
             => IF active_playlist = NoPlaylist
                THEN UNCHANGED <<state, decode_thread>>
                ELSE /\ pc[t] = "play_start"
                     /\ decode_thread' # decode_thread
                     /\ loc'[decode_thread'].path =
                           [pl |-> active_playlist.name, i |-> CurrentIndex]]_vars

\* ---------------------------------------------------------------------------
\* discover() (src/haze/playlist.py) over a playlists directory
\* ---------------------------------------------------------------------------
\* The names an entry of the root may have, less extension, in lexicographic
\* order; a directory is named by the stem alone, a playlist file stem.m3u,
\* an audio file stem.mp3, so the root sorts as
\* Default, Default.m3u, Default.mp3, rock, rock.m3u, rock.mp3.
Stems == <<"Default", "rock">>

\* a subdirectory that does not exist
NoFolder == {<<0, "">>}

\* the files a subdirectory may hold: <<rank in name order, suffix>>
FolderFiles == {<<1, ".mp3">>, <<2, ".flac">>, <<3, ".txt">>}

\* what parse_playlist_file makes of a playlist file: it raises, or returns
\* the existing tracks it lists
Raises == <<[dir |-> "raise", f |-> 0]>>
NoList == <<[dir |-> "absent", f |-> 0]>>
ParseResults == {Raises, << >>, <<[dir |-> "elsewhere", f |-> 1]>>}

\* The root directory: for every stem the subdirectory (the set of its files),
\* the playlist file (what parsing it gives) and whether stem.mp3 exists.
Roots ==
    [dir : [1..Len(Stems) -> SUBSET FolderFiles \cup {NoFolder}],
     list : [1..Len(Stems) -> ParseResults \cup {NoList}],
     audio : [1..Len(Stems) -> BOOLEAN]]

\* _scan_folder: the audio files of a folder, sorted
RECURSIVE ScanFolder(_, _)
ScanFolder(where, files) ==
    IF files = {} THEN << >>
    ELSE LET first == CHOOSE x \in files : \A y \in files : x[1] <= y[1] IN
         (IF first[2] \in {".mp3", ".flac"}
          THEN <<[dir |-> where, f |-> first[1]]>> ELSE << >>)
         \o ScanFolder(where, files \ {first})

\* dict assignment that keeps the value already stored under the key
DictKeep(d, pl) ==
    IF \E i \in 1..Len(d) : d[i].name = pl.name THEN d ELSE Append(d, pl)

\* playlists[pl.name] = pl: a new key goes to the end, a known key keeps its
\* place and takes the new value
DictSet(d, pl) ==
    IF \E i \in 1..Len(d) : d[i].name = pl.name
    THEN [i \in 1..Len(d) |-> IF d[i].name = pl.name THEN pl ELSE d[i]]
    ELSE Append(d, pl)

\* the loop of discover over the sorted root, from the entries of stem s on
RECURSIVE DiscoverEntries(_, _, _)
DiscoverEntries(root, s, d) ==
    IF s > Len(Stems) THEN d
    ELSE LET folder == IF root.dir[s] = NoFolder THEN << >>
                       ELSE ScanFolder(Stems[s], root.dir[s])
             d1 == IF folder # << >>
                   THEN DictSet(d, [name |-> Stems[s], tracks |-> folder,
                                    source |-> <<"dir", s>>])
                   ELSE d
             raw == IF root.list[s] \in {NoList, Raises} THEN << >> ELSE root.list[s]
             d2 == IF raw # << >>
                   THEN DictSet(d1, [name |-> Stems[s], tracks |-> raw,
                                     source |-> <<"list", s>>])
                   ELSE d1
         IN  DiscoverEntries(root, s + 1, d2)

\* discover(): the Default playlist of the root's own audio files, then the loop
DiscoverDir(root) ==
    LET root_tracks == ScanFolder("", {<<s, ".mp3">> : s \in {x \in 1..Len(Stems) : root.audio[x]}})
    IN  DiscoverEntries(root, 1,
            IF root_tracks # << >>
            THEN <<[name |-> "Default", tracks |-> root_tracks, source |-> <<"root", 0>>]>>
            ELSE << >>)

DiscInit ==
    /\ ConstructedOthers
    /\ deck = NoDeck
    /\ injector = NoInjector
    /\ \E root \in Roots : hist = [last |-> "new", root |-> root, out |-> << >>]

\* self.playlists = discover(self.cfg) over the contents of the directory
DiscRun ==
    /\ hist.last = "new"
    /\ hist' = [hist EXCEPT !.last = "discover", !.out = DiscoverDir(hist.root)]
    /\ UNCHANGED <<ConstructedVars, deck, injector>>

SpecDiscover == DiscInit /\ [][DiscRun]_vars

\* C24: the result of discover() has a playlist "Default" of the root's own
\* audio files when there are any, a playlist per subdirectory with audio
\* files, named after it, with the tracks in name order, and a playlist per
\* playlist file, named after its stem; of the sources giving one name the
\* last in iteration order (the root first, then the entries in name order) is
\* the one kept; no playlist has zero tracks.
C24_Discover ==
    hist.last = "discover"
       => LET root == hist.root
              out == hist.out
              Audio(F) == {x \in F : x[2] \in {".mp3", ".flac"}}
              Sources == {<<"root", 0>>}
                         \cup {<<k, s>> : k \in {"dir", "list"}, s \in 1..Len(Stems)}
              Order(src) == IF src[1] = "root" THEN 0
                            ELSE 2 * src[2] - (IF src[1] = "dir" THEN 1 ELSE 0)
              NameOf(src) == IF src[1] = "root" THEN "Default" ELSE Stems[src[2]]
              Wanted(src) ==
                  IF src[1] = "root"
                  THEN {[dir |-> "", f |-> s] : s \in {x \in 1..Len(Stems) : root.audio[x]}}
                  ELSE IF src[1] = "dir"
                  THEN IF root.dir[src[2]] = NoFolder THEN {}
                       ELSE {[dir |-> Stems[src[2]], f |-> x[1]] : x \in Audio(root.dir[src[2]])}
                  ELSE IF root.list[src[2]] \in {NoList, Raises} THEN {}
                       ELSE Range(root.list[src[2]])
              Present == {src \in Sources : Wanted(src) # {}}
          IN  /\ \A i \in 1..Len(out) : Len(out[i].tracks) > 0
              /\ \A i, j \in 1..Len(out) : out[i].name = out[j].name => i = j
              /\ {out[i].name : i \in 1..Len(out)} = {NameOf(src) : src \in Present}
              /\ \A i \in 1..Len(out) :
                    LET pl == out[i] IN
                    /\ pl.source \in Present
                    /\ NameOf(pl.source) = pl.name
                    /\ \A src \in Present :
                          NameOf(src) = pl.name => Order(src) <= Order(pl.source)
                    /\ Range(pl.tracks) = Wanted(pl.source)
                    /\ pl.source[1] = "list" => pl.tracks = root.list[pl.source[2]]
                    /\ pl.source[1] # "list" =>
                          \A a, b \in 1..Len(pl.tracks) : a < b => pl.tracks[a].f < pl.tracks[b].f

\* a root with audio files of its own, a subdirectory Default and a playlist
\* file Default.m3u, next to a subdirectory rock of two audio files
C24_Witness ==
    /\ hist.last = "discover"
    /\ hist.root.audio[2]
    /\ hist.root.dir[1] = {<<1, ".mp3">>}
    /\ hist.root.dir[2] = FolderFiles
    /\ hist.root.list[1] = <<[dir |-> "elsewhere", f |-> 1]>>
    /\ hist.root.list[2] = Raises
    /\ hist.out = <<[name |-> "Default", tracks |-> <<[dir |-> "elsewhere", f |-> 1]>>,
                     source |-> <<"list", 1>>],
                    [name |-> "rock",
                     tracks |-> <<[dir |-> "rock", f |-> 1], [dir |-> "rock", f |-> 2]>>,
                     source |-> <<"dir", 2>>]>>

\* ---------------------------------------------------------------------------
\* ParseM3U.parse (src/haze/parsing/ParseM3U.py)
\* ---------------------------------------------------------------------------
MaxLines == 4

\* current_title = None, current_duration = None
NoExtinf == [title |-> "None", duration |-> -1]

\* The lines of a playlist file.  An #EXTINF line is given by the token before
\* the comma ("3" is a number, "x" is not), whether there is a comma, and the
\* text after it; a path line by the file it names and whether the file
\* exists; "other" is a blank line, #EXTM3U or another comment.
M3ULines ==
    [kind : {"extinf"}, tok : {"3", "x"}, comma : BOOLEAN, text : {"a"},
     file : {0}, exists : {FALSE}]
    \cup [kind : {"path"}, tok : {""}, comma : {FALSE}, text : {""},
          file : {1}, exists : BOOLEAN]
    \cup [kind : {"other"}, tok : {""}, comma : {FALSE}, text : {""},
          file : {0}, exists : {FALSE}]

\* a parse that forgets the #EXTINF only when the path line gave a track
ResetIfExists(exists) == exists

\* lines 44-45 run after every path line
ResetAfterPath(exists) == TRUE

\* the loop of parse from line i on, with the #EXTINF values carried and the
\* tracks collected so far
RECURSIVE ParseLines(_, _, _, _)
ParseLines(lines, i, cur, tracks) ==
    IF i > Len(lines) THEN tracks
    ELSE LET line == lines[i] IN
         IF line.kind = "other" THEN ParseLines(lines, i + 1, cur, tracks)
         ELSE IF line.kind = "extinf"
         THEN ParseLines(lines, i + 1,
                         [duration |-> IF line.tok = "3" THEN 3 ELSE NoExtinf.duration,
                          title |-> IF line.comma THEN line.text ELSE NoExtinf.title],
                         tracks)
         ELSE ParseLines(lines, i + 1,
                         IF ResetAfterPath(line.exists) THEN NoExtinf ELSE cur,
                         IF line.exists
                         THEN Append(tracks, [path |-> <<line.file, i>>,
                                              title |-> cur.title,
                                              duration |-> cur.duration])
                         ELSE tracks)

M3UInit ==
    /\ ConstructedOthers
    /\ deck = NoDeck
    /\ injector = NoInjector
    /\ \E n \in 0..MaxLines : \E lines \in [1..n -> M3ULines] :
          hist = [last |-> "new", lines |-> lines, out |-> << >>]

\* parse(path) over the lines of the file
M3URun ==
    /\ hist.last = "new"
    /\ hist' = [hist EXCEPT !.last = "parse",
                            !.out = ParseLines(hist.lines, 1, NoExtinf, << >>)]
    /\ UNCHANGED <<ConstructedVars, deck, injector>>

SpecM3U == M3UInit /\ [][M3URun]_vars

\* C25: the tracks of a parsed M3U file are its path lines that name existing
\* files, in order; a track whose path line is preceded by "#EXTINF:D,T", with
\* no other path line in between, has duration D and title T; every other
\* track has neither, also when the path line in between was dropped because
\* its file does not exist.
C25_Extinf ==
    hist.last = "parse"
       => LET lines == hist.lines
              out == hist.out
              Kept == {i \in 1..Len(lines) : lines[i].kind = "path" /\ lines[i].exists}
              Place(i) == Cardinality({j \in Kept : j <= i})
              \* the #EXTINF lines that apply to path line i
              Before(i) == {j \in 1..(i - 1) :
                              /\ lines[j].kind = "extinf"
                              /\ \A k \in (j + 1)..(i - 1) : lines[k].kind # "path"}
          IN  /\ Len(out) = Cardinality(Kept)
              /\ \A i \in Kept :
                    LET track == out[Place(i)] IN
                    /\ track.path = <<lines[i].file, i>>
                    /\ IF Before(i) = {}
                       THEN track.title = "None" /\ track.duration = -1
                       ELSE LET j == CHOOSE j \in Before(i) : \A k \in Before(i) : k <= j
                            IN  /\ (lines[j].tok = "3" /\ lines[j].comma)
                                      => track.duration = 3 /\ track.title = lines[j].text
                                /\ lines[j].tok # "3" => track.duration = -1
                                /\ ~lines[j].comma => track.title = "None"

\* "#EXTINF:3,a", a missing file, an existing file: one track, with no title
C25_Witness ==
    /\ hist.last = "parse"
    /\ Len(hist.lines) = 3
    /\ hist.lines[1].kind = "extinf" /\ hist.lines[1].tok = "3" /\ hist.lines[1].comma
    /\ hist.lines[2].kind = "path" /\ ~hist.lines[2].exists
    /\ hist.lines[3].kind = "path" /\ hist.lines[3].exists
    /\ hist.out = <<[path |-> <<1, 3>>, title |-> "None", duration |-> -1]>>

\* C26: every step of a control operation or of track-end handling that
\* changes active_playlist, the cursor, the deck, the pending slot or the
\* engine state is taken by a thread that holds the controller lock.
C26_MutationsUnderLock ==
    [][<<active_playlist, track_index, deck, pending_playlist, state>>'
          # <<active_playlist, track_index, deck, pending_playlist, state>>
       => \E t \in Threads : pc'[t] # pc[t] /\ (lock = t \/ lock' = t)]_vars

\* C27: a decoder that holds a chunk while the stop signal is not set leaves
\* the put only by enqueuing that chunk at the end of the ring: no chunk is
\* given up because the ring stayed full.
C27_NoChunkDiscarded ==
    [][\A d \in DecIds :
          (pc[d] = "d_put" /\ pc'[d] # "d_put" /\ ~stop_decode)
          => audio_queue' = Append(audio_queue, Chunk(d))]_vars

\* C28: track-end handling is entered by a decoder only when the ring is
\* empty and the stop signal is not set, so the decoder of the next track is
\* never started while chunks of the finished track are queued.
C28_TrackEndAfterDrain ==
    [][\A d \in DecIds :
          (pc[d] = "d_exit" /\ pc'[d] = "te_lock")
          => audio_queue = << >> /\ ~stop_decode]_vars

\* ---------------------------------------------------------------------------
\* Scheduling: every thread that can take a step of the code it is running
\* eventually takes one (a call of a control method is the user's choice and
\* is not forced); the sinks keep running.
\* ---------------------------------------------------------------------------
Run(t) ==
    \/ t \in Callers
         /\ \/ Start(t) \/ Stop(t) \/ StopJoining(t) \/ StopOutputs(t)
            \/ Pause(t) \/ Resume(t) \/ NotifyState(t)
            \/ NextTrack(t) \/ PrevTrack(t) \/ ToggleShuffle(t) \/ ToggleRebuild(t)
            \/ SwitchTo(t) \/ SwitchLocked(t)
            \/ ReloadPlaylists(t) \/ ReloadLoad(t)
    \/ Activate(t) \/ PlayMeta(t) \/ PlayStop(t)
    \/ PlayJoin(t) \/ PlayJoining(t) \/ PlayStart(t)
    \/ t \in DecIds
         /\ \/ DLoop(t) \/ DGate(t) \/ DPut(t) \/ DPutTimeout(t)
            \/ DExit(t) \/ TrackEnd(t)

Fairness ==
    /\ \A t \in Threads : WF_vars(Run(t))
    /\ WF_vars(SoundcardCallback)
    /\ \A f \in 1..MaxStarts : WF_vars(FeederFeed(f) \/ FeederQuit(f))

SpecLive == (Init \/ InitPaused) /\ [][Next]_vars /\ Fairness

\* C29: a decoder inside its loop (between chunks, at the put on a full ring
\* or at the pause gate) while the stop signal is set eventually leaves the
\* loop, where it kills and reaps its subprocess and terminates.
C29_SignalledDecoderTerminates ==
    \A d \in DecIds :
       (stop_decode /\ pc[d] \in {"d_loop", "d_gate", "d_put"})
          ~> (pc[d] \notin {"d_loop", "d_gate", "d_put"})

\* C30: a ShuffleDeck keeps 0 <= c <= N/2 and a tail of at most c elements,
\* whatever carry-over it was constructed with and after every reset; rewind
\* only moves the cursor one back, stopping at 0, and leaves the permutation
\* and the tail alone; a deck of one element is always [0] with an empty tail.
C30_DeckBounds ==
    [][/\ \A dk \in {deck, deck'} :
             /\ 0 <= dk.c
             /\ 2 * dk.c <= dk.n
             /\ Len(dk.tail) <= dk.c
             /\ dk.n = 1 => dk.deck = <<0>> /\ dk.tail = << >>
       /\ hist'.last = "rewind"
             => deck' = [deck EXCEPT !.pos = Max(0, deck.pos - 1)]]_vars

\* C31: a sink that fails does not stop playback: whether the soundcard stream
\* opens or not and whether the encoder can be spawned or not, start() goes on
\* to activate a playlist when there is one.
C31_SinkFailureIsolated ==
    [][\A t \in Callers :
          (pc[t] = "start" /\ pc'[t] # "start" /\ Len(playlists) > 0)
          => pc'[t] = "activate"]_vars

\* ---------------------------------------------------------------------------
\* ParseXSFP.parse (src/haze/parsing/ParseXSFP.py).  A string is the sequence
\* of its characters.
\* ---------------------------------------------------------------------------
MaxTracks == 2

\* the <location> texts a track element may hold:
\* file:///m/a%20b, /m/a%20b, a%20b and the empty text
XspfLocations ==
    {<<"f", "i", "l", "e", ":", "/", "/", "/", "m", "/", "a", "%", "2", "0", "b">>,
     <<"/", "m", "/", "a", "%", "2", "0", "b">>,
     <<"a", "%", "2", "0", "b">>,
     << >>}

\* the directory of the playlist file and the working directory of the process
XspfBase == <<"/", "p">>
Cwd == <<"/", "w">>

\* the files that may exist: /m/a b, /w/m/a b, /p/a b
XspfFiles ==
    {<<"/", "m", "/", "a", " ", "b">>,
     <<"/", "w", "/", "m", "/", "a", " ", "b">>,
     <<"/", "p", "/", "a", " ", "b">>}

\* urllib.parse.unquote, for the escape %20
RECURSIVE Unquote(_)
Unquote(s) ==
    IF s = << >> THEN << >>
    ELSE IF Len(s) >= 3 /\ s[1] = "%" /\ s[2] = "2" /\ s[3] = "0"
    THEN <<" ">> \o Unquote(SubSeq(s, 4, Len(s)))
    ELSE <<s[1]>> \o Unquote(Tail(s))

\* str.startswith
StartsWith(s, prefix) == Len(s) >= Len(prefix) /\ SubSeq(s, 1, Len(prefix)) = prefix

\* Path.resolve() and the lookups of the file system: a relative path is
\* taken from the working directory
Absolute(p) == IF p # << >> /\ p[1] = "/" THEN p ELSE Cwd \o <<"/">> \o p

\* _resolve_location
ResolveLocation(location, base) ==
    IF StartsWith(location, <<"f", "i", "l", "e", ":", "/", "/", "/">>)
    THEN Unquote(SubSeq(location, 9, Len(location)))
    ELSE IF StartsWith(location, <<"f", "i", "l", "e", ":", "/", "/">>)
    THEN Unquote(SubSeq(location, 8, Len(location)))
    ELSE LET p == Unquote(location) IN
         Absolute(IF p # << >> /\ p[1] = "/" THEN p ELSE base \o <<"/">> \o p)

\* the loop of parse over the track elements from element i on
RECURSIVE XspfTracks(_, _, _)
XspfTracks(locations, i, fs) ==
    IF i > Len(locations) THEN << >>
    ELSE LET track_path == ResolveLocation(locations[i], XspfBase) IN
         (IF locations[i] # << >> /\ Absolute(track_path) \in fs
          THEN <<[path |-> track_path, elem |-> i]>> ELSE << >>)
         \o XspfTracks(locations, i + 1, fs)

XspfInit ==
    /\ ConstructedOthers
    /\ deck = NoDeck
    /\ injector = NoInjector
    /\ \E n \in 0..MaxTracks : \E locations \in [1..n -> XspfLocations] :
          \E fs \in SUBSET XspfFiles :
             hist = [last |-> "new", locations |-> locations, fs |-> fs, out |-> << >>]

\* parse(path) over the track elements of the file
XspfRun ==
    /\ hist.last = "new"
    /\ hist' = [hist EXCEPT !.last = "parse",
                            !.out = XspfTracks(hist.locations, 1, hist.fs)]
    /\ UNCHANGED <<ConstructedVars, deck, injector>>

SpecXspf == XspfInit /\ [][XspfRun]_vars

\* C32: the tracks of a parsed XSPF file are, in order, those of its track
\* elements whose path exists, the path of a location file:///<path> or
\* file://<path> being the URL-decoded absolute path after "file://"
\* (file:///m/a%20b is /m/a b), that of another absolute location its
\* URL-decoded text and that of a relative location its URL-decoded text under
\* the directory of the playlist file.
C32_XspfLocation ==
    hist.last = "parse"
       => LET Path(l) ==
                  IF StartsWith(l, <<"f", "i", "l", "e", ":", "/", "/">>)
                  THEN Unquote(SubSeq(l, 8, Len(l)))
                  ELSE IF l[1] = "/" THEN Unquote(l)
                  ELSE XspfBase \o <<"/">> \o Unquote(l)
              Kept == {i \in 1..Len(hist.locations) :
                          hist.locations[i] # << >> /\ Path(hist.locations[i]) \in hist.fs}
          IN  /\ Len(hist.out) = Cardinality(Kept)
              /\ \A i \in Kept :
                    hist.out[Cardinality({j \in Kept : j <= i})] =
                       [path |-> Path(hist.locations[i]), elem |-> i]

\* C33: track-end handling takes the lock and advances only on behalf of the
\* controller's current decoder: a decoder that next_track, prev_track or
\* switch_to has replaced never advances the cursor or activates a playlist.
C33_TrackEndOnlyForCurrent ==
    [][\A d \in DecIds :
          (pc[d] = "te_lock" /\ pc'[d] # "te_lock") => d = decode_thread]_vars

\* C34: when no control method and no track-end handling is under way the
\* pause gate is open if the state is PLAYING and closed if it is PAUSED.
C34_GateMatchesState ==
    Quiet => /\ state = PLAYING => pause_event
             /\ state = PAUSED => ~pause_event

\* C35: while a decoder is alive and no control method or track-end handling
\* is under way, the track current_track reports is the track the controller's
\* decoder was started for.
C35_CurrentTrackIsPlaying ==
    (Quiet /\ Alive(decode_thread) /\ active_playlist # NoPlaylist)
       => loc[decode_thread].path = [pl |-> active_playlist.name, i |-> CurrentIndex]

\* C36: with an active playlist the current index is a valid index into its
\* tracks, and the shuffle deck, when there is one, was built for exactly the
\* number of tracks of the active playlist, also when control calls of
\* different threads overlap.
C36_IndexAndDeckFit ==
    active_playlist # NoPlaylist
       => /\ deck # NoDeck => deck.n = active_playlist.n
          /\ CurrentIndex \in 0..(active_playlist.n - 1)

\* C37: the pending playlist, if any, and the active playlist, if any, are the
\* entries stored under their names in the current playlist set, also after
\* reload_playlists() has replaced the set.
C37_PlaylistsAreCurrent ==
    \A pl \in {pending_playlist, active_playlist} \ {NoPlaylist} :
       pl.name \in PlaylistNames(playlists) /\ Lookup(playlists, pl.name) = pl

\* the operations that must not touch the pending slot
FrameOps == {"next_track", "prev_track", "pause", "resume", "toggle_shuffle"}

\* C38: no step of next_track(), prev_track(), pause(), resume() or
\* toggle_shuffle() changes the pending slot, and a track end that finds a
\* playlist in the pending slot takes it out of the slot and goes on to
\* activate it.
C38_PendingSurvivesSkip ==
    [][/\ \A t \in Callers :
             (loc[t].op \in FrameOps /\ pc'[t] # pc[t])
             => pending_playlist' = pending_playlist
       /\ \A d \in DecIds :
             (Leaves(d, "te_lock") /\ pending_playlist # NoPlaylist)
             => /\ pc'[d] = "activate"
                /\ loc'[d].pl = pending_playlist
                /\ pending_playlist' = NoPlaylist]_vars

\* next_track() has advanced and stopped the old decoder, and the playlist
\* queued before it is still in the pending slot
C38_Witness ==
    /\ pending_playlist # NoPlaylist
    /\ \E t \in Callers : loc[t].op = "next_track" /\ pc[t] = "play_start"

====
